---- MODULE Spec2Model ----
(***************************************************************************)
(* Model of mp3journaling.py: the track-mark pattern classifier            *)
(* (get_windows), the interval resolver (find_track_mark_patterns), the    *)
(* export loop (split_audio_file_into_segments) and the reassembly of a    *)
(* segmented recording (insert_placeholder_files,                          *)
(* concatenate_track_marker_files, search_and_combine_recordings).         *)
(*                                                                         *)
(* A marker line "[MMMMM:SS.ss]" is modelled by its two numeric fields     *)
(* <<minutes, hundredths of a second below one minute>>; the empty line '' *)
(* is the empty sequence <<>>, and a line that holds several marks one     *)
(* after the other is the sequence of all their fields.  A marker file is  *)
(* its lines and whether the last of them ends with a newline.  The times  *)
(* the program computes are Python floats; they are modelled exactly, see  *)
(* the section on floats.  Offsets and thresholds are given in hundredths   *)
(* of a second, durations and creation times in thousandths.  List indices *)
(* keep the 0-based values of the Python code.                             *)
(***************************************************************************)
EXTENDS Integers, Sequences, FiniteSets, TLC

VARIABLES
    pc,              \* position of the program; an exception name once raised
    track_marks,     \* list of marker lines handed to find_track_mark_patterns
    interval,        \* gap threshold maxTimeInterval / interval
    index,           \* get_windows: cursor
    track_mark_counter, \* get_windows: marks counted in the current run
    total_time,      \* get_windows: accumulated gap of the current run
    reset,           \* get_windows: next mark read starts a run
    windows,         \* get_windows: Pattern values emitted so far
    cursors,         \* value of index at each windows.append
    rindex,          \* find_track_mark_patterns: index
    time_intervals,  \* find_track_mark_patterns: resolved TimeIntervals
    epos,            \* split_audio_file_into_segments: loop position
    index_of_types,  \* split_audio_file_into_segments: per-pattern counter
    requests,        \* ffmpeg invocations issued so far
    mp3_files,       \* record.mp3_files, sorted by name
    tmk_files,       \* record.tmk_files, sorted by name
    tpos,            \* insert_placeholder_files: position in record.tmk_files
    aindex,          \* insert_placeholder_files: index
    new_tmk_path_list, \* insert_placeholder_files: the alignment list
    ppos,            \* concatenate_track_marker_files: position in the zip
    merge_total,     \* concatenate_track_marker_files: total_time
    first_file,      \* concatenate_track_marker_files: first_file
    output_file,     \* lines written to the merged marker file
    output_newline,  \* the merged marker file is empty or ends with a newline
    tmk_file,        \* name of Record.tmk_file
    unlinked,        \* original marker files deleted after the merge
    codec_seconds,   \* offset handed to seconds_to_track_marker
    codec_text,      \* the marker text it returns
    codec_result,    \* what track_mark_to_seconds makes of that text
    records,         \* the recording groups of one run of the script
    gpos,            \* position of the running loop in the list of groups
    phases,          \* per group, the phases it has completed, in order
    merged           \* per merged name, the group whose markers the file holds

vars == <<pc, track_marks, interval, index, track_mark_counter, total_time,
          reset, windows, cursors, rindex, time_intervals, epos,
          index_of_types, requests, mp3_files, tmk_files, tpos, aindex,
          new_tmk_path_list, ppos, merge_total, first_file, output_file,
          output_newline, tmk_file, unlinked, codec_seconds, codec_text,
          codec_result,
          records, gpos, phases, merged>>

codecVars == <<codec_seconds, codec_text, codec_result>>

runVars == <<records, gpos, phases, merged>>

classifyVars == <<track_marks, interval, index, track_mark_counter,
                  total_time, reset, windows, cursors, rindex,
                  time_intervals, epos, index_of_types, requests>>

mergeVars == <<mp3_files, tmk_files, tpos, aindex, new_tmk_path_list, ppos,
               merge_total, first_file, output_file, output_newline, tmk_file,
               unlinked>>

---------------------------------------------------------------------------
(* Bounds of the checked inputs *)

MaxMarks == 6

\* gaps between consecutive marks: inside the default threshold (5 s and
\* 10.5 s), above it but below the shortest lookback (40 s), above every
\* lookback (310 s)
Gaps == {500, 1050, 4000, 31000}

\* offset of the first mark: below the shortest lookback and a float (10 s),
\* above it and no float (70.02 s)
FirstOffsets == {1000, 7002}

\* gap thresholds tried: one below zero (-1 s), zero, 10 s and the default
\* 30 s
Intervals == {-100, 0, 1000, 3000}

---------------------------------------------------------------------------
(* Pattern table *)

IMPORTANT_THOUGHT == 1
IMPORTANT_THOUGHT_LONG == 2
IMPORTANT_CONVERSATION == 3
CONFIDENTIAL == 4
PROJECT_IDEA == 5

\* the values of the Pattern enumeration
Pattern == {IMPORTANT_THOUGHT, IMPORTANT_THOUGHT_LONG, IMPORTANT_CONVERSATION,
            CONFIDENTIAL, PROJECT_IDEA}

\* the span-closing mark of a CONFIDENTIAL run not skipped
PatternSkipsShort == [p \in Pattern |->
                        CASE p = IMPORTANT_THOUGHT -> 1
                          [] p = IMPORTANT_THOUGHT_LONG -> 2
                          [] p = IMPORTANT_CONVERSATION -> 4
                          [] p = CONFIDENTIAL -> 4
                          [] p = PROJECT_IDEA -> 5]

\* how many track marks to jump over after each pattern
PatternSkips == [p \in Pattern |->
                   CASE p = IMPORTANT_THOUGHT -> 1
                     [] p = IMPORTANT_THOUGHT_LONG -> 2
                     [] p = IMPORTANT_CONVERSATION -> 4
                     [] p = CONFIDENTIAL -> 5
                     [] p = PROJECT_IDEA -> 5]

\* lookback of the three lookback patterns, in hundredths of a second
PatternTime == [p \in {IMPORTANT_THOUGHT, IMPORTANT_THOUGHT_LONG, PROJECT_IDEA} |->
                  CASE p = IMPORTANT_THOUGHT -> 6000
                    [] p = IMPORTANT_THOUGHT_LONG -> 12000
                    [] p = PROJECT_IDEA -> 30000]

\* max(pattern.value for pattern in Pattern)
MaxPatternValue == CHOOSE m \in Pattern : \A p \in Pattern : p <= m

---------------------------------------------------------------------------
(* Python floats (IEEE 754 binary64, round to nearest, ties to even).  A float
   near a whole number h of hundredths of a second is Float(h, d): its exact
   value is (h + d / 2^57) / 100 seconds.  Every float of magnitude 0.01 s or
   more is a whole multiple of 2^-59 s, so d is an integer; the operators
   below are exact for magnitudes below 2^19 s (145 hours). *)

Float(h, d) == [h |-> h, d |-> d]

Pow2(n) == 2 ^ n

\* floor of the binary logarithm of n, 1 <= n < 2^30
Log2(n) == CHOOSE e \in 0..29 : Pow2(e) <= n /\ n < Pow2(e + 1)

\* h hundredths are exactly 2^e seconds, e >= -2
IsPowerOfTwo(h) == h % 25 = 0 /\ Pow2(Log2(h \div 25)) = h \div 25

\* the binary exponent of (h + d / 2^57) / 100 for h >= 1
Exponent(h, d) ==
    LET e == IF h >= 25 THEN Log2(h \div 25) - 2
             ELSE Log2((h * 128) \div 100) - 7
    IN  IF d < 0 /\ IsPowerOfTwo(h) THEN e - 1 ELSE e

\* h * 2^(50 - e) modulo 25 (2^20 is 1 modulo 25): the position of h / 100
\* between the multiples of 2^(e - 52), in 25ths
Residue(h, e) == ((h % 25) * (Pow2((50 - e) % 20) % 25)) % 25

\* d of the float nearest to (h + d / 2^57) / 100, h >= 1
RoundPositive(h, d) ==
    LET e    == Exponent(h, d)
        ulp  == 25 * Pow2(e + 7)
        over == Residue(h, e) * Pow2(e + 7) + d
        rem  == over % ulp
        odd  == (Residue(h, e + 1) >= 13) # ((over \div ulp) % 2 = 1)
    IN  IF rem = 0 THEN d
        ELSE IF rem < ulp - rem THEN d - rem
        ELSE IF rem > ulp - rem THEN d + (ulp - rem)
        ELSE IF odd THEN d + (ulp - rem)
        ELSE d - rem

\* the float nearest to the real number (h + d / 2^57) / 100; multiples of
\* 0.25 s and differences below 0.01 s are floats already
Round(h, d) ==
    IF d = 0 /\ h % 25 = 0 THEN Float(h, 0)
    ELSE IF h = 0 THEN Float(0, d)
    ELSE IF h > 0 THEN Float(h, RoundPositive(h, d))
    ELSE Float(h, -RoundPositive(-h, -d))

\* float("SS.ss") and the float of a number literal, given in hundredths
FloatOf(hundredths) == Round(hundredths, 0)

FloatAdd(x, y) == Round(x.h + y.h, x.d + y.d)

FloatSub(x, y) == Round(x.h - y.h, x.d - y.d)

FloatLess(x, y) == x.h < y.h \/ (x.h = y.h /\ x.d < y.d)

\* floor(x / unit) for x >= 0 and a unit given in hundredths
FloatFloor(x, unit) ==
    IF x.d < 0 /\ x.h % unit = 0 THEN x.h \div unit - 1 ELSE x.h \div unit

\* x % unit for x >= 0: exact in floating point
FloatMod(x, unit) == Float(x.h - unit * FloatFloor(x, unit), x.d)

\* x * n for a whole number n
FloatTimes(x, n) == Round(x.h * n, x.d * n)

---------------------------------------------------------------------------
(* Floats of any size.  float() of a text is the binary64 number nearest to
   the decimal number the text writes, whatever its size.  A whole number of
   any size is the list of its digits in base 2^15, lowest first and without
   leading zero; zero is the empty list.  A float is
   Binary64("finite", sign, m, e), the number (-1)^sign * m * 2^e with m odd
   or zero, or Binary64("inf", sign, <<>>, 0), or Binary64("nan", 0, <<>>, 0).
   The operators on digit lists work on the two halves of a list, the half
   that hands a carry on first. *)

LimbBits == 15

Base == Pow2(LimbBits)

\* a without leading zeros
BigNorm(a) ==
    LET used == {i \in 1..Len(a) : a[i] # 0}
    IN  IF used = {} THEN <<>>
        ELSE SubSeq(a, 1, CHOOSE i \in used : \A j \in used : j <= i)

RECURSIVE BigOf(_)
BigOf(n) == IF n = 0 THEN <<>> ELSE <<n % Base>> \o BigOf(n \div Base)

\* the digits of a * k + b + carry for lists a and b of one length, and the
\* carry above them; b may hold the negated digits of a number to subtract,
\* and the carry is a borrow then
RECURSIVE BigCarry(_, _, _, _)
BigCarry(a, k, b, carry) ==
    IF Len(a) = 0 THEN [digits |-> <<>>, carry |-> carry]
    ELSE IF Len(a) = 1
    THEN LET s == a[1] * k + b[1] + carry
         IN  [digits |-> <<s % Base>>, carry |-> s \div Base]
    ELSE LET half == Len(a) \div 2
             low  == BigCarry(SubSeq(a, 1, half), k, SubSeq(b, 1, half), carry)
             high == BigCarry(SubSeq(a, half + 1, Len(a)), k,
                              SubSeq(b, half + 1, Len(b)), low.carry)
         IN  [digits |-> low.digits \o high.digits, carry |-> high.carry]

\* a * k for 0 <= k < Base
BigTimes(a, k) ==
    LET p == BigCarry(a, k, [i \in 1..Len(a) |-> 0], 0)
    IN  BigNorm(p.digits \o BigOf(p.carry))

BigAdd(a, b) ==
    LET n == IF Len(a) < Len(b) THEN Len(b) ELSE Len(a)
        s == BigCarry([i \in 1..n |-> IF i <= Len(a) THEN a[i] ELSE 0], 1,
                      [i \in 1..n |-> IF i <= Len(b) THEN b[i] ELSE 0], 0)
    IN  BigNorm(s.digits \o BigOf(s.carry))

\* a - b for a >= b
BigSub(a, b) ==
    BigNorm(BigCarry(a, 1, [i \in 1..Len(a) |-> IF i <= Len(b) THEN -b[i] ELSE 0],
                     0).digits)

BigLess(a, b) ==
    IF Len(a) # Len(b) THEN Len(a) < Len(b)
    ELSE \E i \in 1..Len(a) :
             a[i] < b[i] /\ \A j \in (i + 1)..Len(a) : a[j] = b[j]

\* long division of the digits a, highest first, by k: the digits of the
\* quotient, highest first, and the remainder
RECURSIVE BigOverPart(_, _, _)
BigOverPart(a, k, rem) ==
    IF Len(a) = 0 THEN [digits |-> <<>>, rem |-> rem]
    ELSE IF Len(a) = 1
    THEN LET cur == rem * Base + a[1]
         IN  [digits |-> <<cur \div k>>, rem |-> cur % k]
    ELSE LET half == Len(a) \div 2
             high == BigOverPart(SubSeq(a, 1, half), k, rem)
             low  == BigOverPart(SubSeq(a, half + 1, Len(a)), k, high.rem)
         IN  [digits |-> high.digits \o low.digits, rem |-> low.rem]

\* quotient q and remainder r of a by k, 1 <= k <= Base
BigOver(a, k) ==
    LET d == BigOverPart([i \in 1..Len(a) |-> a[Len(a) + 1 - i]], k, 0)
        n == Len(d.digits)
    IN  [q |-> BigNorm([i \in 1..n |-> d.digits[n + 1 - i]]), r |-> d.rem]

\* the number of binary digits of a
BigBits(a) ==
    IF a = <<>> THEN 0 ELSE LimbBits * (Len(a) - 1) + Log2(a[Len(a)]) + 1

\* a * 2^n
BigShiftLeft(a, n) ==
    IF a = <<>> THEN a
    ELSE [i \in 1..(n \div LimbBits) |-> 0] \o BigTimes(a, Pow2(n % LimbBits))

\* floor(a / 2^n)
BigShiftRight(a, n) ==
    IF n \div LimbBits >= Len(a) THEN <<>>
    ELSE BigOver(SubSeq(a, n \div LimbBits + 1, Len(a)), Pow2(n % LimbBits)).q

\* a * 10^n
RECURSIVE BigTimesPow10(_, _)
BigTimesPow10(a, n) ==
    IF n <= 4 THEN BigTimes(a, 10 ^ n)
    ELSE LET first == BigTimesPow10(a, n \div 2)
         IN  IF first = <<>> THEN first
             ELSE BigTimesPow10(first, n - n \div 2)

\* floor(a / 10^n), and whether a remainder is left
RECURSIVE BigOverPow10(_, _)
BigOverPow10(a, n) ==
    IF n <= 4
    THEN LET d == BigOver(a, 10 ^ n) IN [q |-> d.q, sticky |-> d.r # 0]
    ELSE LET first == BigOverPow10(a, n \div 2)
             rest  == BigOverPow10(first.q, n - n \div 2)
         IN  IF first.sticky THEN [q |-> rest.q, sticky |-> TRUE] ELSE rest

Binary64(class, sign, m, e) ==
    [class |-> class, sign |-> sign, m |-> m, e |-> e]

\* the float nearest to (-1)^sign * (m + f) * 2^e, ties to even: f is 0, or
\* some number between 0 and 1 when sticky.  A float has 53 binary digits, is
\* a multiple of 2^-1074 and is below 2^1024.
Nearest(sign, m, e, sticky) ==
    LET Finite(q, x) ==
            LET i    == CHOOSE i \in 1..Len(q) :
                            q[i] # 0 /\ \A j \in 1..(i - 1) : q[j] = 0
                t    == CHOOSE t \in 0..(LimbBits - 1) :
                            q[i] % Pow2(t + 1) = Pow2(t)
                twos == LimbBits * (i - 1) + t
            IN  IF q = <<>> THEN Binary64("finite", sign, <<>>, 0)
                ELSE IF BigBits(q) + x > 1024 THEN Binary64("inf", sign, <<>>, 0)
                ELSE Binary64("finite", sign, BigShiftRight(q, twos), x + twos)
        wide == BigBits(m) - 53
        low  == -1074 - e
        drop == IF wide > low THEN wide ELSE low
    IN  IF drop <= 0 THEN Finite(m, e)
        ELSE LET q    == BigShiftRight(m, drop)
                 rem  == BigSub(m, BigShiftLeft(q, drop))
                 half == BigShiftLeft(<<1>>, drop - 1)
                 up   == \/ BigLess(half, rem)
                         \/ rem = half /\ (sticky \/ (q # <<>> /\ q[1] % 2 = 1))
             IN  Finite(IF up THEN BigAdd(q, <<1>>) ELSE q, e + drop)

\* the float nearest to (-1)^sign * digits * 10^exponent
DecimalToFloat(sign, digits, exponent) ==
    IF digits = <<>> THEN Binary64("finite", sign, <<>>, 0)
    ELSE IF exponent >= 0
    THEN IF exponent > 310 THEN Binary64("inf", sign, <<>>, 0)
         ELSE Nearest(sign, BigTimesPow10(digits, exponent), 0, FALSE)
    ELSE IF -exponent > 340 + BigBits(digits)
    THEN Binary64("finite", sign, <<>>, 0)
    ELSE LET k == 64 - 4 * exponent
             d == BigOverPow10(BigShiftLeft(digits, k), -exponent)
         IN  Nearest(sign, d.q, -k, d.sticky)

\* x * n for a whole number n, 1 <= n < Base
Binary64Times(x, n) ==
    IF x.class # "finite" THEN x
    ELSE Nearest(x.sign, BigTimes(x.m, n), x.e, FALSE)

\* x + y
Binary64Add(x, y) ==
    IF x.class = "nan" \/ y.class = "nan" THEN Binary64("nan", 0, <<>>, 0)
    ELSE IF x.class = "inf"
    THEN IF y.class = "inf" /\ y.sign # x.sign
         THEN Binary64("nan", 0, <<>>, 0)
         ELSE x
    ELSE IF y.class = "inf" THEN y
    ELSE IF x.m = <<>> /\ y.m = <<>>
    THEN Binary64("finite", IF x.sign = 1 /\ y.sign = 1 THEN 1 ELSE 0, <<>>, 0)
    ELSE IF x.m = <<>> THEN y
    ELSE IF y.m = <<>> THEN x
    ELSE LET e == IF x.e < y.e THEN x.e ELSE y.e
             a == BigShiftLeft(x.m, x.e - e)
             b == BigShiftLeft(y.m, y.e - e)
         IN  IF x.sign = y.sign THEN Nearest(x.sign, BigAdd(a, b), e, FALSE)
             ELSE IF a = b THEN Binary64("finite", 0, <<>>, 0)
             ELSE IF BigLess(a, b) THEN Nearest(y.sign, BigSub(b, a), e, FALSE)
             ELSE Nearest(x.sign, BigSub(a, b), e, FALSE)

\* the float Float(h, d) written as a Binary64: (h * 2^57 + d) / 25 * 2^-59
ToBinary64(x) ==
    LET sign == IF x.h < 0 \/ (x.h = 0 /\ x.d < 0) THEN 1 ELSE 0
        h    == IF sign = 1 THEN -x.h ELSE x.h
        d    == IF sign = 1 THEN -x.d ELSE x.d
        top  == BigShiftLeft(BigOf(h), 57)
        n    == IF d < 0 THEN BigSub(top, BigOf(-d)) ELSE BigAdd(top, BigOf(d))
        q    == BigOver(n, 25)
    IN  Nearest(sign, q.q, -59, q.r # 0)

---------------------------------------------------------------------------
(* Timestamp codec *)

\* the line '' (a blank line after strip)
BlankLine == <<>>

\* the value None
None == <<"None">>

\* float(track_mark[1:6]) * 60 + float(track_mark[7:12]) succeeds
Parses(track_mark) == track_mark # BlankLine

\* the number of hundredths of a second a marker line reads as
Written(track_mark) == track_mark[1] * 6000 + track_mark[2]

\* the marker line of an offset given in hundredths of a second, as the
\* recorder writes it
MarkerLine(hundredths) == <<hundredths \div 6000, hundredths % 6000>>

\* line 74: both fields are converted to floats, the minutes are multiplied
\* by 60 and the two floats are added
track_mark_to_seconds(track_mark) ==
    FloatAdd(FloatTimes(FloatOf(track_mark[1] * 100), 60), FloatOf(track_mark[2]))

\* the whole number a list of digits in base 2^15 writes
RECURSIVE BigValue(_)
BigValue(a) == IF a = <<>> THEN 0 ELSE a[1] + Base * BigValue(Tail(a))

\* lines 78-82 for a float that is not negative, whole / 2^down: the whole
\* minutes int(seconds // 60), and seconds % 60 (exact in floating point, it
\* is rest / 2^down) rounded by the format "05.2f" to the nearest number of
\* hundredths, ties to even
seconds_to_track_marker(seconds) ==
    LET down    == IF seconds.e < 0 THEN -seconds.e ELSE 0
        whole   == IF seconds.e < 0 THEN seconds.m
                   ELSE BigShiftLeft(seconds.m, seconds.e)
        minutes == BigOver(BigShiftRight(whole, down), 60).q
        rest    == BigSub(whole, BigShiftLeft(BigTimes(minutes, 60), down))
        scaled  == BigTimes(rest, 100)
        q       == BigShiftRight(scaled, down)
        rem     == BigSub(scaled, BigShiftLeft(q, down))
        half    == BigShiftLeft(<<1>>, down - 1)
        up      == /\ down > 0
                   /\ \/ BigLess(half, rem)
                      \/ rem = half /\ q # <<>> /\ q[1] % 2 = 1
    IN  <<BigValue(minutes), BigValue(q) + (IF up THEN 1 ELSE 0)>>

\* lines 65-70
track_mark_interval_to_seconds(first, second) ==
    LET second_converted == track_mark_to_seconds(second)
    IN  IF first = None THEN second_converted
        ELSE FloatSub(second_converted, track_mark_to_seconds(first))

\* "H:M:S", every field truncated to an integer
track_mark_to_ffmpeg_timestamps(track_mark_seconds) ==
    << FloatFloor(track_mark_seconds, 360000),
       FloatFloor(FloatMod(track_mark_seconds, 360000), 6000),
       FloatFloor(FloatMod(track_mark_seconds, 6000), 100) >>

\* the position ffmpeg seeks to for an "H:M:S" argument, in hundredths
FfmpegPosition(ts) == (ts[1] * 3600 + ts[2] * 60 + ts[3]) * 100

---------------------------------------------------------------------------
(* Python list access *)

InRange(list, i) == -Len(list) <= i /\ i < Len(list)

Item(list, i) == IF i < 0 THEN list[Len(list) + i + 1] ELSE list[i + 1]

\* the exception raised by reading and converting list[i] for the indices of
\* reads in order, "none" if every read succeeds
RECURSIVE ReadError(_, _)
ReadError(list, reads) ==
    IF reads = <<>> THEN "none"
    ELSE IF ~InRange(list, Head(reads)) THEN "IndexError"
    ELSE IF ~Parses(Item(list, Head(reads))) THEN "ValueError"
    ELSE ReadError(list, Tail(reads))

Seconds(list, i) == track_mark_to_seconds(Item(list, i))

\* max(a, b) of two floats
Max(a, b) == IF FloatLess(a, b) THEN b ELSE a

---------------------------------------------------------------------------
(* get_windows *)

\* line 93: another mark is read in this iteration
Advances(counter) == counter <= 4

\* the cap test taken one mark too late
CapReachedLate(counter) == counter > MaxPatternValue

\* line 101: the longest possible pattern has been reached
CapReached(counter) == counter >= MaxPatternValue

\* the threshold test made inclusive
ExceededOrEqual(total, threshold) == ~FloatLess(total, FloatOf(threshold))

\* line 111: the accumulated gap exceeds the threshold
Exceeded(total, threshold) == FloatLess(FloatOf(threshold), total)

\* the boundary mark given back after every run
RewindsAlways(counter) == TRUE

\* line 113: the boundary mark is given back to the next run
Rewinds(counter) == counter \notin {CONFIDENTIAL, IMPORTANT_CONVERSATION}

\* the cursor set back by the whole run and its boundary mark
RewoundRun(idx, counter) == idx - counter - 1

\* lines 113-114: the cursor after a boundary, one mark back for short runs
Rewound(idx, counter) == IF Rewinds(counter) THEN idx - 1 ELSE idx

\* one iteration of the while loop
GetWindowsStep ==
    /\ pc = "get_windows"
    /\ index < Len(track_marks)
    /\ LET adv  == Advances(track_mark_counter)
           adds == adv /\ ~reset
           rerr == IF adds THEN ReadError(track_marks, <<index, index - 1>>)
                   ELSE "none"
           tot  == IF adds
                   THEN FloatAdd(total_time,
                                 track_mark_interval_to_seconds(
                                     Item(track_marks, index - 1),
                                     Item(track_marks, index)))
                   ELSE total_time
           idx  == IF adv THEN index + 1 ELSE index
           rst  == IF adv THEN FALSE ELSE reset
       IN  IF rerr # "none"
           THEN /\ pc' = rerr
                /\ UNCHANGED <<index, track_mark_counter, total_time, reset,
                               windows, cursors>>
           ELSE IF CapReached(track_mark_counter)
           THEN IF track_mark_counter \in Pattern
                THEN /\ windows' = Append(windows, track_mark_counter)
                     /\ cursors' = Append(cursors, idx)
                     /\ index' = idx
                     /\ track_mark_counter' = 0
                     /\ total_time' = Float(0, 0)
                     /\ reset' = TRUE
                     /\ pc' = pc
                ELSE /\ pc' = "ValueError: not a valid Pattern"
                     /\ index' = idx
                     /\ total_time' = tot
                     /\ reset' = rst
                     /\ UNCHANGED <<track_mark_counter, windows, cursors>>
           ELSE IF Exceeded(tot, interval)
           THEN LET back == Rewound(idx, track_mark_counter)
                IN  IF track_mark_counter \in Pattern
                    THEN /\ windows' = Append(windows, track_mark_counter)
                         /\ cursors' = Append(cursors, back)
                         /\ index' = back
                         /\ track_mark_counter' = 0
                         /\ total_time' = Float(0, 0)
                         /\ reset' = TRUE
                         /\ pc' = pc
                    ELSE /\ pc' = "ValueError: not a valid Pattern"
                         /\ index' = back
                         /\ total_time' = tot
                         /\ reset' = rst
                         /\ UNCHANGED <<track_mark_counter, windows, cursors>>
           ELSE /\ track_mark_counter' = track_mark_counter + 1
                /\ index' = idx
                /\ total_time' = tot
                /\ reset' = rst
                /\ pc' = pc
                /\ UNCHANGED <<windows, cursors>>
    /\ UNCHANGED <<track_marks, interval, rindex, time_intervals, epos,
                   index_of_types, requests>>
    /\ UNCHANGED mergeVars
    /\ UNCHANGED <<codecVars, runVars>>

\* the loop has ended: flush the last group and return the windows
GetWindowsReturn ==
    /\ pc = "get_windows"
    /\ index >= Len(track_marks)
    /\ IF track_mark_counter > 0
       THEN IF track_mark_counter \in Pattern
            THEN /\ windows' = Append(windows, track_mark_counter)
                 /\ cursors' = Append(cursors, index)
                 /\ pc' = "resolve"
            ELSE /\ pc' = "ValueError: not a valid Pattern"
                 /\ UNCHANGED <<windows, cursors>>
       ELSE /\ pc' = "resolve"
            /\ UNCHANGED <<windows, cursors>>
    /\ UNCHANGED <<track_marks, interval, index, track_mark_counter, total_time,
                   reset, rindex, time_intervals, epos, index_of_types, requests>>
    /\ UNCHANGED mergeVars
    /\ UNCHANGED <<codecVars, runVars>>

---------------------------------------------------------------------------
(* find_track_mark_patterns *)

TimeInterval(start, end, type) == [start |-> start, end |-> end, type |-> type]

IsLookback(window) ==
    window \in {IMPORTANT_THOUGHT, IMPORTANT_THOUGHT_LONG, PROJECT_IDEA}

\* no clamp to the previous interval
MinimumZero(marks, idx) == Float(0, 0)

\* line 147: the offset no later interval may reach back across
Minimum(marks, idx) ==
    IF idx > 0 THEN Seconds(marks, idx - 1) ELSE Float(0, 0)

\* the indices of track_marks read while one window is resolved, in order
ResolveReads(idx, window) ==
    (IF idx > 0 THEN <<idx - 1>> ELSE <<>>)
    \o (IF IsLookback(window) THEN <<idx, idx>>
        ELSE IF window = IMPORTANT_CONVERSATION THEN <<idx + 2, idx + 3>>
        ELSE IF window = CONFIDENTIAL THEN <<idx + 3, idx + 4>>
        ELSE <<>>)

\* lines 149-162: the TimeInterval of one window
ResolveInterval(marks, idx, window) ==
    IF IsLookback(window)
    THEN TimeInterval(Max(Minimum(marks, idx),
                          FloatSub(Seconds(marks, idx),
                                   FloatOf(PatternTime[window]))),
                      Seconds(marks, idx), window)
    ELSE IF window = IMPORTANT_CONVERSATION
    THEN TimeInterval(Seconds(marks, idx + 2), Seconds(marks, idx + 3), window)
    ELSE TimeInterval(Seconds(marks, idx + 3), Seconds(marks, idx + 4), window)

\* the cursor moved by the number of marks in the pattern's name
SkipArity(idx, window) == idx + window

\* line 166: the cursor moved past the marks of the window
Skip(idx, window) == idx + PatternSkips[window]

\* one iteration of "for window in windows"
ResolveStep ==
    /\ pc = "resolve"
    /\ Len(time_intervals) < Len(windows)
    /\ LET window == windows[Len(time_intervals) + 1]
           rerr   == ReadError(track_marks, ResolveReads(rindex, window))
       IN  IF rerr # "none"
           THEN /\ pc' = rerr
                /\ UNCHANGED <<rindex, time_intervals>>
           ELSE IF window \notin Pattern
           THEN /\ pc' = "ValueError: Invalid number of track markers detected"
                /\ UNCHANGED <<rindex, time_intervals>>
           ELSE /\ time_intervals' =
                        Append(time_intervals,
                               ResolveInterval(track_marks, rindex, window))
                /\ rindex' = Skip(rindex, window)
                /\ pc' = pc
    /\ UNCHANGED <<track_marks, interval, index, track_mark_counter, total_time,
                   reset, windows, cursors, epos, index_of_types, requests>>
    /\ UNCHANGED mergeVars
    /\ UNCHANGED <<codecVars, runVars>>

\* every window is resolved: the list is returned and handed to the export
ResolveReturn ==
    /\ pc = "resolve"
    /\ Len(time_intervals) = Len(windows)
    /\ pc' = "export"
    /\ UNCHANGED classifyVars
    /\ UNCHANGED mergeVars
    /\ UNCHANGED <<codecVars, runVars>>

---------------------------------------------------------------------------
(* split_audio_file_into_segments *)

\* lines 319-320: the interval is passed over without any extraction
Skipped(segment_type) == segment_type = CONFIDENTIAL

\* the ffmpeg invocation of one interval: "-ss" and "-to" arguments
Request(ti, n) ==
    [ss   |-> track_mark_to_ffmpeg_timestamps(ti.start),
     to   |-> track_mark_to_ffmpeg_timestamps(ti.end),
     type |-> ti.type,
     n    |-> n]

\* one iteration of "for track_marks_pattern in track_marks_patterns";
\* ffmpeg runs with check=True and may exit non-zero
ExportStep ==
    /\ pc = "export"
    /\ epos < Len(time_intervals)
    /\ LET ti == time_intervals[epos + 1]
       IN  IF Skipped(ti.type)
           THEN /\ epos' = epos + 1
                /\ pc' = pc
                /\ UNCHANGED <<index_of_types, requests>>
           ELSE /\ index_of_types' =
                        [index_of_types EXCEPT ![ti.type] = @ + 1]
                /\ requests' =
                        Append(requests, Request(ti, index_of_types[ti.type] + 1))
                /\ \E ffmpeg_ok \in BOOLEAN :
                        IF ffmpeg_ok
                        THEN epos' = epos + 1 /\ pc' = pc
                        ELSE epos' = epos /\ pc' = "CalledProcessError"
    /\ UNCHANGED <<track_marks, interval, index, track_mark_counter, total_time,
                   reset, windows, cursors, rindex, time_intervals>>
    /\ UNCHANGED mergeVars
    /\ UNCHANGED <<codecVars, runVars>>

ExportReturn ==
    /\ pc = "export"
    /\ epos = Len(time_intervals)
    /\ pc' = "done"
    /\ UNCHANGED classifyVars
    /\ UNCHANGED mergeVars
    /\ UNCHANGED <<codecVars, runVars>>

---------------------------------------------------------------------------
(* Inputs of the classification: marker lists as read_track_markers returns *)
(* them, strictly increasing, with or without the blank last line           *)

RECURSIVE IncreasingOffsets(_)
IncreasingOffsets(n) ==
    IF n = 0 THEN {<<>>}
    ELSE IF n = 1 THEN {<<f>> : f \in FirstOffsets}
    ELSE {Append(s, s[Len(s)] + g) : s \in IncreasingOffsets(n - 1), g \in Gaps}

\* with the sequences of the two worked examples, and sequences whose gaps
\* equal the threshold in decimal and differ from it as floats
OffsetLists ==
    UNION {IncreasingOffsets(n) : n \in 0..MaxMarks}
    \cup { <<0, 1000, 2000, 20000>>,
           <<1000, 1100, 1200, 1300, 50000>>,
           <<1000, 1100, 1200, 1300, 50000, 60000>>,
           <<1000, 1500, 2000, 2500, 3000, 10000, 10500, 50000>>,
           <<202, 3202>>,
           <<202, 1202, 2202, 3202, 20000>>,
           <<804, 1804, 3804, 6804>> }

\* the text lines of a marker file holding the given offsets
Lines(offsets) == [i \in 1..Len(offsets) |-> MarkerLine(offsets[i])]

\* read_track_markers: every line of the file, stripped
read_track_markers(lines) == lines

ClassifyIdle ==
    /\ track_marks = <<>>
    /\ interval = 3000
    /\ index = 0
    /\ track_mark_counter = 0
    /\ total_time = Float(0, 0)
    /\ reset = TRUE
    /\ windows = <<>>
    /\ cursors = <<>>
    /\ rindex = 0
    /\ time_intervals = <<>>
    /\ epos = 0
    /\ index_of_types = [p \in Pattern |-> 0]
    /\ requests = <<>>

MergeIdle ==
    /\ mp3_files = <<>>
    /\ tmk_files = <<>>
    /\ tpos = 0
    /\ aindex = 0
    /\ new_tmk_path_list = <<>>
    /\ ppos = 0
    /\ merge_total = Binary64("finite", 0, <<>>, 0)
    /\ first_file = TRUE
    /\ output_file = <<>>
    /\ output_newline = TRUE
    /\ tmk_file = "none"
    /\ unlinked = {}

CodecIdle ==
    /\ codec_seconds = 0
    /\ codec_text = <<>>
    /\ codec_result = Binary64("finite", 0, <<>>, 0)

RunIdle ==
    /\ records = <<>>
    /\ gpos = 0
    /\ phases = <<>>
    /\ merged = <<>>

\* find_track_mark_patterns is entered with a marker list and a threshold
Init ==
    /\ pc = "get_windows"
    /\ \E o \in OffsetLists :
          track_marks \in {read_track_markers(Lines(o)),
                           read_track_markers(Append(Lines(o), BlankLine))}
    /\ interval \in Intervals
    /\ index = 0
    /\ track_mark_counter = 0
    /\ total_time = Float(0, 0)
    /\ reset = TRUE
    /\ windows = <<>>
    /\ cursors = <<>>
    /\ rindex = 0
    /\ time_intervals = <<>>
    /\ epos = 0
    /\ index_of_types = [p \in Pattern |-> 0]
    /\ requests = <<>>
    /\ MergeIdle
    /\ CodecIdle
    /\ RunIdle

Next ==
    \/ GetWindowsStep
    \/ GetWindowsReturn
    \/ ResolveStep
    \/ ResolveReturn
    \/ ExportStep
    \/ ExportReturn

Spec == Init /\ [][Next]_vars

---------------------------------------------------------------------------
(* Bounds of the checked recording groups *)

MaxSegments == 3

MaxMarkerFiles == 2

\* durations of an audio segment (the float info.time_secs), in thousandths
\* of a second: 100 s, 50 s, 50.004 s, which is no whole number of
\* hundredths, 8.34 s, and 0.125 s, half a hundredth and a float exactly
\* (a mark moved by it lies midway between two hundredths)
Durations == {100000, 50000, 50004, 8340, 125}

\* creation times of a marker file, in thousandths of a second: 5 s after the
\* first segment, at the instant a first segment of 8.34 s ends (15.65 s), at
\* the instant a first segment of 100 s or two segments of 50 s end
\* (107.31 s)
MarkerBirths == {12310, 15650, 107310}

\* the text of a marker file: its lines, and whether the last line ends with
\* a newline as the others do
Text(lines, newline) == [lines |-> lines, newline |-> newline]

\* contents of a marker file: one mark, one mark and the blank last line the
\* recorder may leave, two marks, the first at 0 s and the last at 50 s
\* (inside a segment of 50.004 s, at the end of a segment of 50 s), a blank
\* line between two marks, two marks without a newline after the last
MarkerContents == { Text(Lines(<<500>>), TRUE),
                    Text(Append(Lines(<<2004>>), BlankLine), TRUE),
                    Text(Lines(<<0, 5000>>), TRUE),
                    Text(<<MarkerLine(500), BlankLine, MarkerLine(900)>>, TRUE),
                    Text(Lines(<<500, 2004>>), FALSE) }

---------------------------------------------------------------------------
(* insert_placeholder_files *)

\* the entry of the alignment list that stands for placeholder.tmk; a marker
\* file is named by its position in record.tmk_files
PlaceholderPath == 0

\* st_birthtime is a float of seconds since the epoch; between 2^30 and 2^31
\* seconds (the years 2004 to 2038) a float is a whole multiple of 2^-22 s,
\* and so is the float sum of a creation time and a duration.  Grid gives the
\* multiple of 2^-22 s nearest to a number of thousandths of a second: the
\* float of a creation time, counted from the whole second the births are
\* counted from, and what the float sum adds to it for a duration.
Grid(thousandths) ==
    (thousandths \div 125) * Pow2(19)
    + ((thousandths % 125) * Pow2(19) + 62) \div 125

\* the test made inclusive
EndedBeforeOrAt(mp3, tmk) == Grid(mp3.birth) + Grid(mp3.secs) <= Grid(tmk.birth)

\* line 234: the segment ended before the marker file was created
EndedBefore(mp3, tmk) == Grid(mp3.birth) + Grid(mp3.secs) < Grid(tmk.birth)

\* line 235
AppendPlaceholder(list) == Append(list, PlaceholderPath)

\* one iteration of the inner loop over record.mp3_files[index:], or the end
\* of that loop when no segment is left for the marker file
InsertPlaceholderStep ==
    /\ pc = "insert_placeholder_files"
    /\ mp3_files # <<>>
    /\ tpos < Len(tmk_files)
    /\ IF aindex < Len(mp3_files)
       THEN /\ aindex' = aindex + 1
            /\ IF EndedBefore(mp3_files[aindex + 1], tmk_files[tpos + 1])
               THEN /\ new_tmk_path_list' = AppendPlaceholder(new_tmk_path_list)
                    /\ tpos' = tpos
               ELSE /\ new_tmk_path_list' = Append(new_tmk_path_list, tpos + 1)
                    /\ tpos' = tpos + 1
       ELSE /\ tpos' = tpos + 1
            /\ UNCHANGED <<aindex, new_tmk_path_list>>
    /\ UNCHANGED <<pc, mp3_files, tmk_files, ppos, merge_total, first_file,
                   output_file, output_newline, tmk_file, unlinked>>
    /\ UNCHANGED classifyVars
    /\ UNCHANGED <<codecVars, runVars>>

\* line 226: record.mp3_files[0] of a group that has a marker file and no
\* audio segment
InsertPlaceholderNoAudio ==
    /\ pc = "insert_placeholder_files"
    /\ mp3_files = <<>>
    /\ pc' = "IndexError"
    /\ UNCHANGED mergeVars
    /\ UNCHANGED classifyVars
    /\ UNCHANGED <<codecVars, runVars>>

\* every marker file has been visited: the new record is returned
InsertPlaceholderReturn ==
    /\ pc = "insert_placeholder_files"
    /\ mp3_files # <<>>
    /\ tpos = Len(tmk_files)
    /\ pc' = "combine"
    /\ UNCHANGED mergeVars
    /\ UNCHANGED classifyVars
    /\ UNCHANGED <<codecVars, runVars>>

---------------------------------------------------------------------------
(* search_and_combine_recordings, concatenate_track_marker_files *)

\* line 278: the recording is segmented; cat runs with check=True
ConcatenateAudioFiles ==
    /\ pc = "combine"
    /\ Len(mp3_files) > 1
    /\ \E cat_ok \in BOOLEAN :
          pc' = IF cat_ok THEN "concatenate_track_marker_files"
                ELSE "CalledProcessError"
    /\ UNCHANGED mergeVars
    /\ UNCHANGED classifyVars
    /\ UNCHANGED <<codecVars, runVars>>

\* zip(record.mp3_files, record.tmk_files) stops at the shorter list
PairCount == IF Len(mp3_files) <= Len(new_tmk_path_list)
             THEN Len(mp3_files) ELSE Len(new_tmk_path_list)

\* lines 209-212: the line parsed, moved by the running total, formatted again
Shifted(line, total) ==
    seconds_to_track_marker(
        Binary64Add(ToBinary64(track_mark_to_seconds(line)), total))

\* lines 203-212: the lines of a later file up to its first blank line, each
\* shifted by the running total
RECURSIVE ShiftedLines(_, _)
ShiftedLines(lines, total) ==
    IF lines = <<>> \/ Head(lines) = BlankLine THEN <<>>
    ELSE <<Shifted(Head(lines), total)>> \o ShiftedLines(Tail(lines), total)

\* line 212: the lines are written one after the other, each followed by a
\* newline; the first continues the last line of the file when that line has
\* no newline
WriteLines(text, lines) ==
    IF lines = <<>> THEN text
    ELSE IF text.newline THEN Text(text.lines \o lines, TRUE)
    ELSE Text(SubSeq(text.lines, 1, Len(text.lines) - 1)
              \o <<text.lines[Len(text.lines)] \o Head(lines)>>
              \o Tail(lines), TRUE)

\* line 199: the text of the file is written as it is
WriteText(text, file) ==
    IF file.lines = <<>> THEN text
    ELSE LET joined == WriteLines(text, file.lines)
         IN  Text(joined.lines, file.newline)

\* the duration of a segment without marker file left out of the total
AddRealOnly(total, secs, path) ==
    IF path = PlaceholderPath THEN total
    ELSE Binary64Add(total, DecimalToFloat(0, BigOf(secs), -3))

\* lines 216-217: the segment's duration audio.info.time_secs, the float
\* nearest to its thousandths, is added whatever its marker source is
AddLength(total, secs, path) ==
    Binary64Add(total, DecimalToFloat(0, BigOf(secs), -3))

\* one iteration of the loop over the (segment, marker source) pairs
ConcatenateTrackMarkerStep ==
    /\ pc = "concatenate_track_marker_files"
    /\ ppos < PairCount
    /\ LET path    == new_tmk_path_list[ppos + 1]
           text    == Text(output_file, output_newline)
           written == IF path = PlaceholderPath THEN text
                      ELSE IF first_file THEN WriteText(text, tmk_files[path])
                      ELSE WriteLines(text, ShiftedLines(tmk_files[path].lines,
                                                         merge_total))
       IN  /\ output_file' = written.lines
           /\ output_newline' = written.newline
           /\ merge_total' = AddLength(merge_total, mp3_files[ppos + 1].secs, path)
    /\ first_file' = FALSE
    /\ ppos' = ppos + 1
    /\ UNCHANGED <<pc, mp3_files, tmk_files, tpos, aindex, new_tmk_path_list,
                   tmk_file, unlinked>>
    /\ UNCHANGED classifyVars
    /\ UNCHANGED <<codecVars, runVars>>

\* the merged marker file is closed, the old files are deleted and the Record
\* is appended (lines 281-298)
ConcatenateTrackMarkerReturn ==
    /\ pc = "concatenate_track_marker_files"
    /\ ppos = PairCount
    /\ unlinked' = {new_tmk_path_list[i] : i \in 1..Len(new_tmk_path_list)}
                       \ {PlaceholderPath}
    /\ tmk_file' = "merged.tmk"
    /\ pc' = "recorded"
    /\ UNCHANGED <<mp3_files, tmk_files, tpos, aindex, new_tmk_path_list, ppos,
                   merge_total, first_file, output_file, output_newline>>
    /\ UNCHANGED classifyVars
    /\ UNCHANGED <<codecVars, runVars>>

\* the sentinel never used
NameAlwaysMerged(tmk_count) == "merged.tmk"

\* lines 291-294: the marker file name of a recording that is not segmented
SingleTmkName(tmk_count) == IF tmk_count > 0 THEN "merged.tmk" ELSE "EMPTY.tmk"

\* lines 288-298: the files of a single segment are renamed; placeholder.tmk
\* is no file of the directory, renaming it fails
RenameSingle ==
    /\ pc = "combine"
    /\ Len(mp3_files) <= 1
    /\ IF Len(new_tmk_path_list) > 0 /\ new_tmk_path_list[1] = PlaceholderPath
       THEN /\ pc' = "FileNotFoundError"
            /\ UNCHANGED <<output_file, output_newline, tmk_file>>
       ELSE /\ LET text == IF Len(new_tmk_path_list) > 0
                           THEN tmk_files[new_tmk_path_list[1]]
                           ELSE Text(output_file, output_newline)
               IN  /\ output_file' = text.lines
                   /\ output_newline' = text.newline
            /\ tmk_file' = SingleTmkName(Len(new_tmk_path_list))
            /\ pc' = "recorded"
    /\ UNCHANGED <<mp3_files, tmk_files, tpos, aindex, new_tmk_path_list, ppos,
                   merge_total, first_file, unlinked>>
    /\ UNCHANGED classifyVars
    /\ UNCHANGED <<codecVars, runVars>>

\* split_audio_based_on_track_marks_pattern, lines 305-308: return at once for
\* the sentinel, else read the marker file and enter the classification
SplitAudio ==
    /\ pc = "recorded"
    /\ IF tmk_file = "EMPTY.tmk"
       THEN /\ pc' = "skipped"
            /\ UNCHANGED track_marks
       ELSE /\ track_marks' = read_track_markers(output_file)
            /\ pc' = "get_windows"
    /\ UNCHANGED <<interval, index, track_mark_counter, total_time, reset,
                   windows, cursors, rindex, time_intervals, epos,
                   index_of_types, requests>>
    /\ UNCHANGED mergeVars
    /\ UNCHANGED <<codecVars, runVars>>

---------------------------------------------------------------------------
(* Inputs of the reassembly: one recording group, its lists sorted by name *)

\* consecutive segments: the first is created 7.31 s after a whole second of
\* the epoch, each other one when the one before it ends; a segment shorter
\* than a second is the first of its group
RECURSIVE SegmentLists(_)
SegmentLists(n) ==
    IF n = 0 THEN {<<>>}
    ELSE IF n = 1 THEN {<<[birth |-> 7310, secs |-> d]>> : d \in Durations}
    ELSE {Append(s, [birth |-> s[Len(s)].birth + s[Len(s)].secs, secs |-> d]) :
              s \in SegmentLists(n - 1), d \in {x \in Durations : x >= 1000}}

\* a marker file: its creation time and its text.  A file of marks only,
\* each ended by a newline, is created at any of the instants; a file with a
\* blank line or without a last newline 5 s after the first segment, where it
\* is paired with the first segment or, behind another file of that instant,
\* with the second.
MarkerFile ==
    {f \in {[birth |-> b, lines |-> c.lines, newline |-> c.newline] :
                b \in MarkerBirths, c \in MarkerContents} :
        \/ f.birth = 12310
        \/ f.newline /\ \A i \in 1..Len(f.lines) : f.lines[i] # BlankLine}

MarkerFileLists(n) == [1..n -> MarkerFile]

InitMerge ==
    /\ pc = "insert_placeholder_files"
    /\ mp3_files \in UNION {SegmentLists(n) : n \in 0..MaxSegments}
    /\ \E n \in 0..MaxMarkerFiles : tmk_files \in MarkerFileLists(n)
    /\ mp3_files # <<>> \/ tmk_files # <<>>
    /\ tpos = 0
    /\ aindex = 0
    /\ new_tmk_path_list = <<>>
    /\ ppos = 0
    /\ merge_total = Binary64("finite", 0, <<>>, 0)
    /\ first_file = TRUE
    /\ output_file = <<>>
    /\ output_newline = TRUE
    /\ tmk_file = "none"
    /\ unlinked = {}
    /\ ClassifyIdle
    /\ CodecIdle
    /\ RunIdle

NextMerge ==
    \/ InsertPlaceholderNoAudio
    \/ InsertPlaceholderStep
    \/ InsertPlaceholderReturn
    \/ ConcatenateAudioFiles
    \/ ConcatenateTrackMarkerStep
    \/ ConcatenateTrackMarkerReturn
    \/ RenameSingle
    \/ SplitAudio

SpecMerge == InitMerge /\ [][NextMerge]_vars

---------------------------------------------------------------------------
(* Properties of the classifier, the resolver and the export *)

\* find_track_mark_patterns has returned its list
Returned == pc \in {"export", "done", "CalledProcessError"}

\* offset of the mark at 0-based position i of track_marks
Offset(i) == track_mark_to_seconds(track_marks[i + 1])

\* number of leading lines of track_marks that are marks
RECURSIVE MarkCount(_)
MarkCount(lines) ==
    IF lines = <<>> \/ ~Parses(Head(lines)) THEN 0 ELSE 1 + MarkCount(Tail(lines))

\* position of the first mark the classifier consumed for its n-th window
RunStart(n) == IF n = 1 THEN 0 ELSE cursors[n - 1]

\* the number of marks of the run that starts at position s when a boundary
\* mark closes it before the cap, 0 when none does: the c marks from position
\* s are in the run, total is the gap accumulated over them as lines 88 and
\* 97 add it up, and the line at position s + c is the next
RECURSIVE Boundary(_, _, _)
Boundary(s, c, total) ==
    IF \/ c >= MaxPatternValue
       \/ s + c >= Len(track_marks)
       \/ ~Parses(track_marks[s + c])
       \/ ~Parses(track_marks[s + c + 1])
    THEN 0
    ELSE LET gap == FloatAdd(total,
                             track_mark_interval_to_seconds(
                                 track_marks[s + c], track_marks[s + c + 1]))
         IN  IF Exceeded(gap, interval) THEN c ELSE Boundary(s, c + 1, gap)

\* the number of marks of the run that starts at position s and is closed by
\* a boundary mark, 0 when no boundary mark closes it
RunLength(s) == Boundary(s, 1, Float(0, 0))

\* at position s starts a run of exactly c marks whose accumulated gap is
\* within the threshold, followed by a mark that pushes it above
BoundedRun(s, c) == RunLength(s) = c

\* C1: under every threshold that is not negative, every window emitted by
\* get_windows, at the cap, at a gap boundary or at the final flush, has an
\* arity between 1 and 5, and neither Pattern() nor the resolver's
\* invalid-pattern branch ever raises.
C1_WindowArity ==
    interval >= 0 =>
        /\ \A n \in 1..Len(windows) : 1 <= windows[n] /\ windows[n] <= 5
        /\ track_mark_counter <= 5
        /\ pc # "ValueError: not a valid Pattern"
        /\ pc # "ValueError: Invalid number of track markers detected"

\* a window emitted at the cap, one at a gap boundary and one at the flush
C1_Witness ==
    /\ pc = "resolve"
    /\ windows = <<PROJECT_IDEA, IMPORTANT_THOUGHT_LONG, IMPORTANT_THOUGHT>>

\* C2: in the returned list every interval starts at or after the end of the
\* interval resolved immediately before it.
C2_NoOverlap ==
    Returned =>
        \A i \in 2..Len(time_intervals) :
            ~FloatLess(time_intervals[i].start, time_intervals[i - 1].end)

\* a returned list in which the clamp decided the start of a lookback interval
C2_Witness ==
    /\ Returned
    /\ \E i \in 2..Len(time_intervals) :
          /\ IsLookback(time_intervals[i].type)
          /\ time_intervals[i].start = time_intervals[i - 1].end
          /\ FloatLess(FloatSub(time_intervals[i].end,
                                FloatOf(PatternTime[time_intervals[i].type])),
                       time_intervals[i - 1].end)

\* C3: a run of exactly 3 marks closed by a boundary mark is emitted as one
\* IMPORTANT_CONVERSATION window that keeps the boundary mark (the next run
\* starts after it) and resolves to [3rd mark, boundary mark]; a run of 1 or 2
\* marks gives the boundary mark back as the first mark of the next window;
\* marks 0, 10, 20, 200 s under a 30 s threshold give one interval ending at
\* 200 s.
C3_NoRewindForSpans ==
    /\ \A n \in 1..Len(windows) :
          LET s == RunStart(n)
              c == RunLength(s)
          IN  /\ c = 3 =>
                    /\ windows[n] = IMPORTANT_CONVERSATION
                    /\ cursors[n] = s + 4
                    /\ n <= Len(time_intervals) =>
                          time_intervals[n] =
                              TimeInterval(Offset(s + 2), Offset(s + 3),
                                           IMPORTANT_CONVERSATION)
              /\ c \in {1, 2} => windows[n] = c /\ cursors[n] = s + c
    /\ (/\ Returned
        /\ track_marks = Lines(<<0, 1000, 2000, 20000>>)
        /\ interval = 3000)
          => Len(time_intervals) = 1 /\ time_intervals[1].end = FloatOf(20000)

\* a resolved conversation closed by its boundary mark, after a rewound run
C3_Witness ==
    /\ pc = "done"
    /\ \E n \in 2..Len(time_intervals) :
          /\ BoundedRun(RunStart(n), 3)
          /\ \E c \in {1, 2} : BoundedRun(RunStart(n - 1), c)

\* C4: a run of 4 marks closed by a boundary mark resolves to
\* [4th mark, boundary mark], and no interval resolved after it starts before
\* the boundary mark; marks 10, 11, 12, 13, 500 s under a 30 s threshold give
\* [13 s, 500 s].
C4_ConfidentialClamp ==
    /\ \A n \in 1..Len(time_intervals) :
          LET s == RunStart(n)
          IN  BoundedRun(s, 4) =>
                /\ time_intervals[n] =
                      TimeInterval(Offset(s + 3), Offset(s + 4), CONFIDENTIAL)
                /\ \A m \in (n + 1)..Len(time_intervals) :
                      ~FloatLess(time_intervals[m].start, Offset(s + 4))
    /\ (/\ Returned
        /\ Len(track_marks) >= 5
        /\ SubSeq(track_marks, 1, 5) = Lines(<<1000, 1100, 1200, 1300, 50000>>)
        /\ interval = 3000)
          => /\ time_intervals[1] =
                    TimeInterval(FloatOf(1300), FloatOf(50000), CONFIDENTIAL)
             /\ \A m \in 2..Len(time_intervals) :
                   ~FloatLess(time_intervals[m].start, FloatOf(50000))

\* the example followed by a single mark at 600 s, resolved as a short note
C4_Witness ==
    /\ pc = "done"
    /\ track_marks = Lines(<<1000, 1100, 1200, 1300, 50000, 60000>>)
    /\ interval = 3000
    /\ Len(time_intervals) = 2
    /\ time_intervals[2].type = IMPORTANT_THOUGHT

\* C5 as stated: a marker list of exactly one mark yields exactly one window,
\* of arity 1, whatever the threshold.
C5_SingleMark ==
    (Len(track_marks) = 1 /\ MarkCount(track_marks) = 1 /\ pc # "get_windows")
        => windows = <<IMPORTANT_THOUGHT>> /\ (pc = "resolve" \/ Returned)

\* C5 amended: a marker list of exactly one mark yields exactly one window,
\* of arity 1, under every threshold that is not negative; under a negative
\* threshold the classifier yields no window and raises ValueError, the gap 0
\* of the first mark exceeding the threshold with no mark counted (lines
\* 111-115).
C5_SingleMarkAmended ==
    (Len(track_marks) = 1 /\ MarkCount(track_marks) = 1 /\ pc # "get_windows")
        => IF interval >= 0
           THEN windows = <<IMPORTANT_THOUGHT>> /\ (pc = "resolve" \/ Returned)
           ELSE windows = <<>> /\ pc = "ValueError: not a valid Pattern"

\* one mark classified under the threshold 0
C5_Witness ==
    /\ Len(track_marks) = 1
    /\ MarkCount(track_marks) = 1
    /\ interval = 0
    /\ pc = "resolve"
    /\ windows = <<IMPORTANT_THOUGHT>>

\* C6: no extraction is requested for a CONFIDENTIAL interval, and the range of
\* audio requested for every exported interval lies at or before the start, or
\* at or after the end, of every CONFIDENTIAL interval of the sequence.
C6_ConfidentialExclusion ==
    \A r \in 1..Len(requests) :
        /\ requests[r].type # CONFIDENTIAL
        /\ \A c \in 1..Len(time_intervals) :
              time_intervals[c].type = CONFIDENTIAL =>
                  \/ ~FloatLess(time_intervals[c].start,
                                FloatOf(FfmpegPosition(requests[r].to)))
                  \/ ~FloatLess(FloatOf(FfmpegPosition(requests[r].ss)),
                                time_intervals[c].end)

---------------------------------------------------------------------------
(* Properties of the alignment and of the merge *)

\* insert_placeholder_files has returned
Aligned == pc \notin {"insert_placeholder_files", "IndexError"}

\* search_and_combine_recordings has appended the Record of the group
Recorded == pc \in {"recorded", "skipped", "get_windows"}

\* lines 187 and 216-217: the float total of the durations of the first k
\* audio segments, each the float nearest to its thousandths, added one after
\* the other from 0.0
RECURSIVE SumSecs(_)
SumSecs(k) ==
    IF k = 0 THEN Binary64("finite", 0, <<>>, 0)
    ELSE Binary64Add(SumSecs(k - 1),
                     DecimalToFloat(0, BigOf(mp3_files[k].secs), -3))

\* what the marks among the given lines read as, in hundredths of a second,
\* in order
RECURSIVE MarkOffsets(_)
MarkOffsets(lines) ==
    IF lines = <<>> THEN <<>>
    ELSE (IF Parses(Head(lines)) THEN <<Written(Head(lines))>>
          ELSE <<>>) \o MarkOffsets(Tail(lines))

\* the marks of the sources paired with the first k segments, each moved by the
\* durations of all segments before its own.  The merge takes the whole file
\* paired with the first segment as it is (lines 198-200) and the lines before
\* the first blank line of a later file (lines 203-206); the float of a later
\* file's mark plus the float total of the durations is written with two
\* decimals (lines 207-212 and 81), the hundredth nearest to the binary value
\* of the sum, the even one of two equally near.
RECURSIVE ExpectedOffsets(_)
ExpectedOffsets(k) ==
    IF k = 0 THEN <<>>
    ELSE ExpectedOffsets(k - 1) \o
         (IF new_tmk_path_list[k] = PlaceholderPath THEN <<>>
          ELSE LET lines == tmk_files[new_tmk_path_list[k]].lines
                   taken == SubSeq(lines, 1, MarkCount(lines))
                   total == SumSecs(k - 1)
               IN  IF k = 1 THEN MarkOffsets(lines)
                   ELSE [j \in 1..Len(taken) |->
                            Written(Shifted(taken[j], total))])

\* every line of every paired marker file ends with a newline
PairedTerminated ==
    \A k \in 1..PairCount :
        new_tmk_path_list[k] # PlaceholderPath =>
            tmk_files[new_tmk_path_list[k]].newline

\* C7: in the merge of several segments a mark at offset x of the source paired
\* with the k-th segment is written at x plus the durations of all segments
\* before the k-th, placeholder segments included, the first segment's marks
\* unshifted; with durations 100 s and 50 s a mark at 5 s of the second source
\* is written at 105 s.  A marker line keeps hundredths of a second: the mark
\* is written at the hundredth the code's float sum is formatted to, which is
\* a hundredth nearest to x plus the durations counted in thousandths (either
\* neighbour when that sum ends in 5 thousandths).  A marker source is a file
\* whose lines each end with a newline.
C7_OffsetAccumulation ==
    LET RECURSIVE Thousandths(_)
        Thousandths(k) ==
            IF k = 0 THEN <<>>
            ELSE Thousandths(k - 1) \o
                 (IF new_tmk_path_list[k] = PlaceholderPath THEN <<>>
                  ELSE LET lines == tmk_files[new_tmk_path_list[k]].lines
                           marks == MarkOffsets(IF k = 1 THEN lines
                                                ELSE SubSeq(lines, 1, MarkCount(lines)))
                           RECURSIVE Before(_)
                           Before(n) == IF n = 0 THEN 0
                                        ELSE Before(n - 1) + mp3_files[n].secs
                       IN  [j \in 1..Len(marks) |-> 10 * marks[j] + Before(k - 1)])
        written == MarkOffsets(output_file)
        exact  == Thousandths(PairCount)
    IN
    (Recorded /\ Len(mp3_files) > 1 /\ PairedTerminated) =>
        /\ written = ExpectedOffsets(PairCount)
        /\ Len(written) = Len(exact)
        /\ \A i \in 1..Len(written) :
               /\ 10 * written[i] - exact[i] <= 5
               /\ exact[i] - 10 * written[i] <= 5
        /\ (/\ mp3_files[1].secs = 100000
            /\ mp3_files[2].secs = 50000
            /\ Len(new_tmk_path_list) >= 2
            /\ new_tmk_path_list[1] # PlaceholderPath
            /\ new_tmk_path_list[2] # PlaceholderPath
            /\ Head(tmk_files[new_tmk_path_list[2]].lines) = MarkerLine(500))
              => \E i \in 1..Len(output_file) :
                    /\ Parses(output_file[i])
                    /\ Written(output_file[i]) = 10500

\* a merge in which a marker file follows a segment that has none
C7_Witness ==
    /\ Recorded
    /\ PairedTerminated
    /\ new_tmk_path_list = <<1, PlaceholderPath, 2>>
    /\ MarkCount(tmk_files[2].lines) > 0
    /\ Len(MarkOffsets(output_file)) >= 2

\* C8, for the groups that have a marker file: the alignment list returned by
\* insert_placeholder_files has exactly one entry, marker file or placeholder,
\* per audio segment, also when the last audio segments have no marker file
\* (two segments and one marker file that belongs to the first).
C8_AlignmentLength ==
    (Aligned /\ tmk_files # <<>>) => Len(new_tmk_path_list) = Len(mp3_files)

\* C9: a marker file the walk cannot pair with a segment is not silently left
\* out: when the group is combined without an error, every marker file of the
\* group is in the alignment, paired with a segment, so that the merge writes
\* its marks to the merged marker file.
C9_UnmatchedMarkerSurfaced ==
    Recorded =>
        \A k \in 1..Len(tmk_files) :
            \E i \in 1..PairCount : new_tmk_path_list[i] = k

\* C10 as stated: a group without marker file always gets the sentinel.
C10_SentinelForNoMarkers ==
    (Recorded /\ tmk_files = <<>>) => tmk_file = "EMPTY.tmk"

\* C10 amended: a group without marker file gets the sentinel EMPTY.tmk, and
\* the classification is skipped, when it has one audio segment; with several
\* segments it gets an empty merged marker file, which is read as an empty
\* marker list.
C10_SentinelSingleSegment ==
    (Recorded /\ tmk_files = <<>>) =>
        IF Len(mp3_files) = 1
        THEN tmk_file = "EMPTY.tmk" /\ pc # "get_windows"
        ELSE /\ tmk_file = "merged.tmk"
             /\ output_file = <<>>
             /\ pc # "skipped"
             /\ track_marks = <<>>

\* the classification skipped for a single segment without marker file
C10_Witness ==
    /\ pc = "skipped"
    /\ Len(mp3_files) = 1
    /\ tmk_files = <<>>
    /\ tmk_file = "EMPTY.tmk"

---------------------------------------------------------------------------
(* Failures of the export and of the classification *)

\* lines 318-320: the number of intervals of a list the export extracts
RECURSIVE Exportable(_)
Exportable(tis) ==
    IF tis = <<>> THEN 0
    ELSE (IF Skipped(Head(tis).type) THEN 0 ELSE 1) + Exportable(Tail(tis))

\* C12: when the extraction of one interval fails the export goes on with the
\* remaining intervals, so once the export is over every interval that is not
\* CONFIDENTIAL has got its extraction request
C12_ExportContinues ==
    pc \in {"done", "CalledProcessError"}
        => Len(requests) = Exportable(time_intervals)

\* C15: a marker file whose last line is blank is tolerated when it is read
\* for classification: the blank line yields no mark and the classification
\* does not fail
C15_TrailingBlankTolerated ==
    (/\ Len(track_marks) >= 2
     /\ track_marks[Len(track_marks)] = BlankLine
     /\ MarkCount(track_marks) = Len(track_marks) - 1) => pc # "ValueError"

\* every line of the marker list is a mark
AllMarks(lines) == MarkCount(lines) = Len(lines)

\* C16: for every strictly increasing marker sequence every index the
\* resolver reads is inside the sequence and it returns one TimeInterval per
\* Window, also when the sequence ends with a flushed run of 3 or 4 marks
C16_ResolverInRange ==
    AllMarks(track_marks) =>
        /\ pc # "IndexError"
        /\ Returned => Len(time_intervals) = Len(windows)

---------------------------------------------------------------------------
(* The cursors of the classifier and of the resolver *)

\* C17: classifier and resolver stay aligned: when the resolver handles its
\* n-th window its cursor is the position of the first mark the classifier
\* consumed for that window; the classifier's runs follow one another without
\* gap or overlap up to the end of the list; and the skip count of every
\* window emitted inside the loop is the number of marks its run consumed.
\* The last window is flushed after the loop (lines 128-129) when the loop
\* ran to the end of the marker list with marks still counted.
C17_CursorsAligned ==
    LET LastFlushed ==
            /\ pc \notin {"get_windows", "ValueError: not a valid Pattern"}
            /\ index >= Len(track_marks)
            /\ track_mark_counter > 0
        EmittedInLoop(n) == n < Len(windows) \/ ~LastFlushed
    IN
    AllMarks(track_marks) =>
        /\ (pc = "resolve" /\ Len(time_intervals) < Len(windows))
                => rindex = RunStart(Len(time_intervals) + 1)
        /\ \A n \in 1..Len(windows) :
                /\ RunStart(n) < cursors[n]
                /\ EmittedInLoop(n)
                        => PatternSkips[windows[n]] = cursors[n] - RunStart(n)
        /\ (pc = "resolve" /\ windows # <<>>)
                => cursors[Len(windows)] = Len(track_marks)

\* the resolver is at its third window, after a span and a short run
C17_Witness ==
    /\ AllMarks(track_marks)
    /\ pc = "resolve"
    /\ Len(windows) >= 3
    /\ Len(time_intervals) = 2
    /\ IMPORTANT_CONVERSATION \in {windows[1], windows[2]}
    /\ rindex = cursors[2]

\* what is left for the loop of get_windows to do: the marks not yet read,
\* and the emission that follows a read
Variant == 3 * (Len(track_marks) - index) + (IF reset THEN 0 ELSE 1)

\* C20: the classifier terminates on every finite marker list: every
\* iteration of the loop of get_windows that does not leave it decreases a
\* variant that never goes below zero, and every emitted window is a net
\* progress of at least one mark
C20_Terminates ==
    /\ [](/\ Variant >= 0
          /\ \A n \in 1..Len(windows) : cursors[n] > RunStart(n))
    /\ [][(pc = "get_windows" /\ pc' = "get_windows") => Variant' < Variant]_vars

\* the loop has returned after a rewind and after a 5-mark cap window
C20_Witness ==
    /\ pc = "resolve"
    /\ Len(windows) >= 2
    /\ windows[1] \in {IMPORTANT_THOUGHT, IMPORTANT_THOUGHT_LONG}
    /\ windows[2] = PROJECT_IDEA
    /\ index = Len(track_marks)

---------------------------------------------------------------------------
(* The pairing of the aligner and the order of the merged marks *)

\* C18: pairing rule of the aligner: the i-th entry of the alignment list is
\* for the i-th audio segment, consumed once; it is a placeholder exactly when
\* that segment's creation time plus its duration is below the creation time
\* of the marker file being matched, and otherwise it is that marker file, so
\* the marker files appear in their input order, each at most once, each with
\* the first segment not yet consumed that fails the test.  The marker file
\* being matched at the i-th entry is the one after the marker files among
\* the first i - 1 entries.
C18_PairingRule ==
    /\ Len(new_tmk_path_list) = aindex
    /\ aindex <= Len(mp3_files)
    /\ \A i \in 1..Len(new_tmk_path_list) :
          LET m == Cardinality({j \in 1..(i - 1) :
                                   new_tmk_path_list[j] # PlaceholderPath}) + 1
          IN  /\ m <= Len(tmk_files)
              /\ IF Grid(mp3_files[i].birth) + Grid(mp3_files[i].secs)
                        < Grid(tmk_files[m].birth)
                 THEN new_tmk_path_list[i] = PlaceholderPath
                 ELSE new_tmk_path_list[i] = m

\* a marker file created at the instant the second segment ends is paired
\* with it, after a placeholder for the first segment
C18_Witness ==
    /\ Aligned
    /\ Len(new_tmk_path_list) >= 2
    /\ new_tmk_path_list[1] = PlaceholderPath
    /\ new_tmk_path_list[2] = 1
    /\ Grid(mp3_files[2].birth) + Grid(mp3_files[2].secs)
           = Grid(tmk_files[1].birth)

StrictlyIncreasing(offsets) ==
    \A i \in 1..(Len(offsets) - 1) : offsets[i] < offsets[i + 1]

\* C19: the merge preserves the classifier's precondition: when the marks of
\* every paired marker file are strictly increasing and each of them is below
\* the duration of the segment the file is paired with, every line of the
\* merged marker file written by concatenate_track_marker_files is a mark,
\* the marks are strictly increasing, and they are the marks of the paired
\* files in the order of the segments, each once, moved by the durations of
\* the segments before its own as the code moves them, in floats and written
\* with two decimals.  It fails for two segments of 50.004 s whose
\* files hold the marks 0 s and 50 s: the last mark of the first
\* file and the first mark of the second are both written as 50.00.
C19_MergeKeepsIncrease ==
    LET paired   == {k \in 1..PairCount : new_tmk_path_list[k] # PlaceholderPath}
        Marks(k) == MarkOffsets(tmk_files[new_tmk_path_list[k]].lines)
        RECURSIVE Sources(_)
        Sources(k) ==
            IF k = 0 THEN <<>>
            ELSE Sources(k - 1) \o
                 (IF k \notin paired THEN <<>>
                  ELSE IF k = 1 THEN Marks(k)
                  ELSE LET total == SumSecs(k - 1)
                       IN  [j \in 1..Len(Marks(k)) |->
                               Written(Shifted(MarkerLine(Marks(k)[j]), total))])
    IN  (/\ Recorded
         /\ Len(mp3_files) > 1
         /\ \A k \in paired :
               /\ StrictlyIncreasing(Marks(k))
               /\ \A j \in 1..Len(Marks(k)) :
                     10 * Marks(k)[j] < mp3_files[k].secs)
        => /\ \A i \in 1..Len(output_file) : Len(output_file[i]) = 2
           /\ StrictlyIncreasing(MarkOffsets(output_file))
           /\ MarkOffsets(output_file) = Sources(PairCount)

---------------------------------------------------------------------------
(* The marker text: seconds_to_track_marker and track_mark_to_seconds on the
   characters of a line.  A text is the list of its characters and a
   character is its Unicode code point: 48 to 57 are the digits "0" to "9",
   91 is "[", 58 is ":", 46 is "." and 93 is "]". *)

\* offsets of every form below two minutes
MaxCodecOffset == 12100

\* with the last offset below 100 minutes, the largest minute count that
\* fills five digits, and the first above it
CodecOffsets == 0..MaxCodecOffset \cup {599999, 599994000, 600000000}

\* the character "0" to "9" of a digit
Digit(d) == 48 + d

\* the characters that are the digit zero of a script (the decimal digits of
\* Unicode 14, which str and float() of Python 3.11 know): "0", the
\* Arabic-Indic zero, ..., the zero of the segmented digits; the nine code
\* points after a zero are the digits one to nine of its script
DigitZeros ==
    {48, 1632, 1776, 1984, 2406, 2534, 2662, 2790, 2918,
     3046, 3174, 3302, 3430, 3558, 3664, 3792, 3872, 4160,
     4240, 6112, 6160, 6470, 6608, 6784, 6800, 6992, 7088,
     7232, 7248, 42528, 43216, 43264, 43472, 43504, 43600, 44016,
     65296, 66720, 68912, 69734, 69872, 69942, 70096, 70384, 70736,
     70864, 71248, 71360, 71472, 71904, 72016, 72784, 73040, 73120,
     92768, 92864, 93008, 120782, 120792, 120802, 120812, 120822, 123200,
     123632, 125264, 130032}

\* a decimal digit of any script
IsDigit(c) == \E z \in DigitZeros : z <= c /\ c <= z + 9

\* the decimal digits of a natural number
RECURSIVE Decimal(_)
Decimal(n) == IF n < 10 THEN <<Digit(n)>> ELSE Append(Decimal(n \div 10), Digit(n % 10))

\* zero padding of a format specification to a minimal width
RECURSIVE ZeroPad(_, _)
ZeroPad(text, width) ==
    IF Len(text) >= width THEN text ELSE ZeroPad(<<Digit(0)>> \o text, width)

\* line 78: int(seconds // 60) of a float
MinutesOf(seconds) == FloatFloor(seconds, 6000)

\* line 80: f"{minutes:05}"
MinutesField(minutes) == ZeroPad(Decimal(minutes), 5)

\* line 81: f"{seconds:05.2f}" of a float, given by the whole number of
\* hundredths nearest to it
SecondsField(hundredths) ==
    ZeroPad(Decimal(hundredths \div 100) \o <<46>>
            \o ZeroPad(Decimal(hundredths % 100), 2), 5)

\* lines 76-82: the characters of the marker line
seconds_to_track_marker_text(seconds) ==
    <<91>> \o MinutesField(MinutesOf(seconds)) \o <<58>>
    \o SecondsField(FloatMod(seconds, 6000).h) \o <<93>>

\* Python's text[a:b] for 0 <= a <= b
Slice(text, a, b) ==
    SubSeq(text, a + 1, IF b <= Len(text) THEN b ELSE Len(text))

\* the value of a sequence of digits "0" to "9", read as a whole number
RECURSIVE DigitsValue(_)
DigitsValue(text) ==
    IF text = <<>> THEN 0
    ELSE DigitsValue(SubSeq(text, 1, Len(text) - 1)) * 10
         + (CHOOSE d \in 0..9 : Digit(d) = text[Len(text)])

\* the text without the blanks float() skips at its two ends: tab, newline,
\* vertical tab, form feed, carriage return and space, and the blanks above
\* the ASCII characters: U+0085, U+00A0, U+1680, U+2000 to U+200A, U+2028,
\* U+2029, U+202F, U+205F and U+3000
Strip(text) ==
    LET blanks == 9..13 \cup {32, 133, 160, 5760} \cup 8192..8202
                      \cup {8232, 8233, 8239, 8287, 12288}
        inside == {i \in 1..Len(text) : text[i] \notin blanks}
    IN  IF inside = {} THEN <<>>
        ELSE SubSeq(text, CHOOSE i \in inside : \A j \in inside : i <= j,
                          CHOOSE i \in inside : \A j \in inside : j <= i)

\* a letter "A" to "Z" as the small letter "a" to "z"
Lower(c) == IF c \in 65..90 THEN c + 32 ELSE c

\* what float() reads: the text without the blanks around it and without
\* its underscores ("_" is 95), the digits of every script as the digits "0"
\* to "9", the letters "A" to "Z" as small letters
Plain(text) ==
    LET bare == SelectSeq(Strip(text), LAMBDA c : c # 95)
    IN  [i \in 1..Len(bare) |->
            IF IsDigit(bare[i])
            THEN Digit(CHOOSE d \in 0..9 : bare[i] - d \in DigitZeros)
            ELSE Lower(bare[i])]

\* the text after its sign, "+" (43) or "-" (45)
Unsigned(text) ==
    IF text # <<>> /\ Head(text) \in {43, 45} THEN Tail(text) ELSE text

\* 1 for a text that starts with a minus sign
SignOf(text) == IF text # <<>> /\ Head(text) = 45 THEN 1 ELSE 0

\* the number of digits a text starts with
DigitCount(text) ==
    CHOOSE n \in 0..Len(text) :
        /\ \A i \in 1..n : IsDigit(text[i])
        /\ n < Len(text) => ~IsDigit(text[n + 1])

\* the parts of a number text without sign: the digits before the point, the
\* digits after it, and what follows them
NumberParts(text) ==
    LET whole  == DigitCount(text)
        rest   == SubSeq(text, whole + 1, Len(text))
        point  == rest # <<>> /\ Head(rest) = 46
        behind == IF point THEN DigitCount(Tail(rest)) ELSE 0
    IN  [whole    |-> SubSeq(text, 1, whole),
         fraction |-> IF point THEN SubSeq(rest, 2, behind + 1) ELSE <<>>,
         exponent |-> IF point THEN SubSeq(rest, behind + 2, Len(rest)) ELSE rest]

\* digits, at least one, around at most one point, and then nothing or an
\* exponent: "e" (101), an optional sign and at least one digit
IsNumber(text) ==
    LET parts  == NumberParts(text)
        digits == Unsigned(Tail(parts.exponent))
    IN  /\ Len(parts.whole) + Len(parts.fraction) > 0
        /\ \/ parts.exponent = <<>>
           \/ /\ Head(parts.exponent) = 101
              /\ digits # <<>>
              /\ DigitCount(digits) = Len(digits)

\* "inf" or "infinity"
IsInfinity(text) ==
    text \in {<<105, 110, 102>>, <<105, 110, 102, 105, 110, 105, 116, 121>>}

\* float() accepts the text: a number, an infinity or "nan" (110, 97, 110),
\* with or without sign and blanks around it; an underscore stands between
\* two digits
IsFloat(text) ==
    LET inner == Strip(text)
        body  == Unsigned(Plain(text))
    IN  /\ \A i \in 1..Len(inner) :
               inner[i] = 95 =>
                   /\ i > 1 /\ IsDigit(inner[i - 1])
                   /\ i < Len(inner) /\ IsDigit(inner[i + 1])
        /\ IsInfinity(body) \/ body = <<110, 97, 110>> \/ IsNumber(body)

\* the digits of a number of any size
RECURSIVE DigitsBig(_)
DigitsBig(text) ==
    IF Len(text) <= 4 THEN BigOf(DigitsValue(text))
    ELSE LET half == Len(text) \div 2
         IN  BigAdd(BigTimesPow10(DigitsBig(SubSeq(text, 1, half)), Len(text) - half),
                    DigitsBig(SubSeq(text, half + 1, Len(text))))

\* the exponent a number text ends with; an exponent above 99999 is beyond
\* every float and counts as 99999
ExponentValue(text) ==
    IF text = <<>> THEN 0
    ELSE LET digits == Unsigned(Tail(text))
             value  == IF BigLess(BigOf(99999), DigitsBig(digits)) THEN 99999
                       ELSE DigitsValue(digits)
         IN  IF SignOf(Tail(text)) = 1 THEN -value ELSE value

\* float(text) of a text float() accepts
FloatValue(text) ==
    LET plain == Plain(text)
        sign  == SignOf(plain)
        body  == Unsigned(plain)
        parts == NumberParts(body)
    IN  IF IsInfinity(body) THEN Binary64("inf", sign, <<>>, 0)
        ELSE IF body = <<110, 97, 110>> THEN Binary64("nan", 0, <<>>, 0)
        ELSE DecimalToFloat(sign, DigitsBig(parts.whole \o parts.fraction),
                            ExponentValue(parts.exponent) - Len(parts.fraction))

\* line 74: both fields of the line are accepted by float()
ParsesText(text) == IsFloat(Slice(text, 1, 6)) /\ IsFloat(Slice(text, 7, 12))

\* line 74: float(track_mark[1:6]) * 60 + float(track_mark[7:12])
track_mark_to_seconds_text(text) ==
    Binary64Add(Binary64Times(FloatValue(Slice(text, 1, 6)), 60),
                FloatValue(Slice(text, 7, 12)))

\* seconds_to_track_marker is called with the float of an offset
SecondsToTrackMarker ==
    /\ pc = "seconds_to_track_marker"
    /\ codec_text' = seconds_to_track_marker_text(FloatOf(codec_seconds))
    /\ pc' = "track_mark_to_seconds"
    /\ UNCHANGED <<codec_seconds, codec_result>>
    /\ UNCHANGED <<classifyVars, mergeVars, runVars>>

\* track_mark_to_seconds is called with the text returned
TrackMarkToSeconds ==
    /\ pc = "track_mark_to_seconds"
    /\ IF ParsesText(codec_text)
       THEN /\ codec_result' = track_mark_to_seconds_text(codec_text)
            /\ pc' = "parsed"
       ELSE /\ pc' = "ValueError"
            /\ UNCHANGED codec_result
    /\ UNCHANGED <<codec_seconds, codec_text>>
    /\ UNCHANGED <<classifyVars, mergeVars, runVars>>

InitCodec ==
    /\ pc = "seconds_to_track_marker"
    /\ codec_seconds \in CodecOffsets
    /\ codec_text = <<>>
    /\ codec_result = Binary64("finite", 0, <<>>, 0)
    /\ ClassifyIdle
    /\ MergeIdle
    /\ RunIdle

NextCodec ==
    \/ SecondsToTrackMarker
    \/ TrackMarkToSeconds

SpecCodec == InitCodec /\ [][NextCodec]_vars

\* C14: codec round trip: for every offset that is a whole number of
\* hundredths of a second and whose minute count fits in five digits, the
\* formatted text is parsed without error and gives the offset back
C14_RoundTrip ==
    MinutesOf(FloatOf(codec_seconds)) <= 99999 =>
        /\ pc # "ValueError"
        /\ pc \in {"track_mark_to_seconds", "parsed"} => Len(codec_text) = 13
        /\ pc = "parsed" => codec_result = ToBinary64(FloatOf(codec_seconds))

---------------------------------------------------------------------------
(* One run of the script over the recording groups of the folder:
   search_and_combine_recordings, then the loop of __main__.  A group is
   described by what decides its course: the number of its audio segments,
   whether it has a marker file, whether the classification of its merged
   markers gives an interval to extract, the exception its files make the
   merge or the classification raise, if any, and the second in which its
   first segment was created, which names its merged files. *)

MaxGroups == 3

\* the seconds in which the first segment of a group is created, numbered;
\* lines 271-276 make the names of the merged files of a group from it
CreationSeconds == 1..2

\* the exceptions the marker files of a group may lead to: renaming
\* placeholder.tmk (line 292) when the only segment ended before the marker
\* file was created, converting a blank line (line 74), reading past the last
\* mark of a flushed run of 3 or 4 marks (lines 154-160)
MarkerErrors(mp3_count) ==
    (IF mp3_count = 1 THEN {"FileNotFoundError"} ELSE {})
    \cup {"ValueError", "IndexError"}

RecordKinds ==
    {[mp3_count |-> n, has_tmk |-> FALSE, exports |-> 0, raises |-> "none",
      second |-> s] : n \in 1..2, s \in CreationSeconds}
    \cup {[mp3_count |-> n, has_tmk |-> TRUE, exports |-> e, raises |-> "none",
           second |-> s] : n \in 1..2, e \in 0..1, s \in CreationSeconds}
    \cup UNION {{[mp3_count |-> n, has_tmk |-> TRUE, exports |-> 0, raises |-> x,
                  second |-> s] : x \in MarkerErrors(n), s \in CreationSeconds} :
                   n \in 1..2}
    \cup {[mp3_count |-> 0, has_tmk |-> TRUE, exports |-> 0, raises |-> "none",
           second |-> 0]}

RecordLists(n) == [1..n -> RecordKinds]

\* no merged marker file in the folder
NoFile == 0

\* the group whose markers the merged marker file of a record holds now
Holder(record) == merged[record.second]

\* the phases of the 1-based group g, with one more completed
Completed(g, phase) == [phases EXCEPT ![g] = Append(@, phase)]

\* every second recording passed over
SkipRecording(g) == g + 2

\* the for loops at lines 261 and 351 go to the next recording of the list
NextRecording(g) == g + 1

\* lines 291-294: the Record of the group carries the sentinel EMPTY.tmk
IsEmptyTmk(record) == record.mp3_count = 1 /\ ~record.has_tmk

\* lines 262-269: the files of the next group are sorted and aligned; line
\* 226 raises for a group that has no audio segment
AlignRecord ==
    /\ pc = "search_and_combine_recordings"
    /\ gpos < Len(records)
    /\ IF records[gpos + 1].mp3_count = 0
       THEN /\ pc' = "IndexError"
            /\ UNCHANGED phases
       ELSE /\ phases' = Completed(gpos + 1, "align")
            /\ pc' = "merge"
    /\ UNCHANGED <<records, gpos, merged>>
    /\ UNCHANGED <<classifyVars, mergeVars, codecVars>>

\* lines 270-298: the group is merged, by cat (check=True) and
\* concatenate_track_marker_files when it is segmented, by renaming otherwise;
\* the merged marker file is written, or renamed, over a file of the same name
MergeRecord ==
    /\ pc = "merge"
    /\ \E cat_ok \in BOOLEAN :
          IF records[gpos + 1].mp3_count > 1 /\ ~cat_ok
          THEN /\ pc' = "CalledProcessError"
               /\ UNCHANGED <<gpos, phases, merged>>
          ELSE IF records[gpos + 1].raises = "FileNotFoundError"
          THEN /\ pc' = "FileNotFoundError"
               /\ UNCHANGED <<gpos, phases, merged>>
          ELSE /\ phases' = Completed(gpos + 1, "merge")
               /\ merged' = IF IsEmptyTmk(records[gpos + 1]) THEN merged
                            ELSE [merged EXCEPT ![records[gpos + 1].second] =
                                                    gpos + 1]
               /\ gpos' = NextRecording(gpos)
               /\ pc' = "search_and_combine_recordings"
    /\ UNCHANGED records
    /\ UNCHANGED <<classifyVars, mergeVars, codecVars>>

\* line 300: every group is merged, final_records is returned to __main__
CombineReturn ==
    /\ pc = "search_and_combine_recordings"
    /\ gpos >= Len(records)
    /\ gpos' = 0
    /\ pc' = "main"
    /\ UNCHANGED <<records, phases, merged>>
    /\ UNCHANGED <<classifyVars, mergeVars, codecVars>>

\* lines 305-308: split_audio_based_on_track_marks_pattern returns at once
\* for the sentinel, else opens the merged marker file of the record (line
\* 56) and classifies the markers it holds
ClassifyRecord ==
    /\ pc = "main"
    /\ gpos < Len(records)
    /\ IF IsEmptyTmk(records[gpos + 1])
       THEN /\ pc' = "unlink"
            /\ UNCHANGED phases
       ELSE IF Holder(records[gpos + 1]) = NoFile
       THEN /\ pc' = "FileNotFoundError"
            /\ UNCHANGED phases
       ELSE IF records[Holder(records[gpos + 1])].raises
                   \in {"ValueError", "IndexError"}
       THEN /\ pc' = records[Holder(records[gpos + 1])].raises
            /\ UNCHANGED phases
       ELSE /\ phases' = Completed(gpos + 1, "classify")
            /\ pc' = "split_audio_file_into_segments"
    /\ UNCHANGED <<records, gpos, merged>>
    /\ UNCHANGED <<classifyVars, mergeVars, codecVars>>

\* line 310: the intervals of the markers read are extracted by ffmpeg
\* (check=True)
ExportRecord ==
    /\ pc = "split_audio_file_into_segments"
    /\ \E ffmpeg_ok \in BOOLEAN :
          IF records[Holder(records[gpos + 1])].exports > 0 /\ ~ffmpeg_ok
          THEN /\ pc' = "CalledProcessError"
               /\ UNCHANGED phases
          ELSE /\ phases' = Completed(gpos + 1, "export")
               /\ pc' = "unlink"
    /\ UNCHANGED <<records, gpos, merged>>
    /\ UNCHANGED <<classifyVars, mergeVars, codecVars>>

\* lines 355-356: the merged files of the recording are deleted, if they are
\* there
CleanupRecord ==
    /\ pc = "unlink"
    /\ phases' = Completed(gpos + 1, "cleanup")
    /\ merged' = IF IsEmptyTmk(records[gpos + 1]) THEN merged
                 ELSE [merged EXCEPT ![records[gpos + 1].second] = NoFile]
    /\ gpos' = NextRecording(gpos)
    /\ pc' = "main"
    /\ UNCHANGED records
    /\ UNCHANGED <<classifyVars, mergeVars, codecVars>>

\* line 358: "Operation completed!"
Finish ==
    /\ pc = "main"
    /\ gpos >= Len(records)
    /\ pc' = "completed"
    /\ UNCHANGED <<records, gpos, phases, merged>>
    /\ UNCHANGED <<classifyVars, mergeVars, codecVars>>

InitRun ==
    /\ pc = "search_and_combine_recordings"
    /\ \E n \in 1..MaxGroups : records \in RecordLists(n)
    /\ gpos = 0
    /\ phases = [g \in 1..Len(records) |-> <<>>]
    /\ merged = [s \in CreationSeconds |-> NoFile]
    /\ ClassifyIdle
    /\ MergeIdle
    /\ CodecIdle

NextRun ==
    \/ AlignRecord
    \/ MergeRecord
    \/ CombineReturn
    \/ ClassifyRecord
    \/ ExportRecord
    \/ CleanupRecord
    \/ Finish

SpecRun == InitRun /\ [][NextRun]_vars

\* group g has been processed through its cleanup
CleanedUp(g) ==
    phases[g] # <<>> /\ phases[g][Len(phases[g])] = "cleanup"

\* C11: a failure of cat or ffmpeg while one group is processed is fatal for
\* that group only: when the run is over every other group has been processed
\* through merge, classification, export and cleanup
C11_FailureIsolated ==
    pc \in {"completed", "CalledProcessError"} =>
        \A g \in 1..Len(records) :
            (pc = "CalledProcessError" /\ g = gpos + 1) \/ CleanedUp(g)

\* C13 as stated: a group runs all its phases to completion before any phase
\* of the next group begins
C13_GroupAtATime ==
    \A g \in 1..Len(records) : \A h \in 1..Len(records) :
        (g < h /\ phases[h] # <<>>) => CleanedUp(g)

\* C13 amended: every group runs its phases in the order align, merge,
\* classify, export, cleanup; the groups are taken in two passes: a group is
\* aligned only when every earlier group is aligned and merged, and a group is
\* classified, exported or cleaned up only when every group is merged and
\* every earlier group is cleaned up
C13_TwoPasses ==
    /\ \A g \in 1..Len(records) :
          LET order == IF IsEmptyTmk(records[g])
                       THEN <<"align", "merge", "cleanup">>
                       ELSE <<"align", "merge", "classify", "export", "cleanup">>
          IN  /\ Len(phases[g]) <= Len(order)
              /\ phases[g] = SubSeq(order, 1, Len(phases[g]))
    /\ \A g \in 1..Len(records) : \A h \in 1..Len(records) :
          /\ (g < h /\ phases[h] # <<>>) => Len(phases[g]) >= 2
          /\ Len(phases[h]) > 2 => Len(phases[g]) >= 2
          /\ (g < h /\ Len(phases[h]) > 2) => CleanedUp(g)

\* the second group is aligned while the first is merged but neither
\* classified nor exported nor cleaned up
C13_Witness ==
    /\ Len(records) >= 2
    /\ ~IsEmptyTmk(records[1])
    /\ phases[1] = <<"align", "merge">>
    /\ phases[2] = <<"align">>

====
